---- MODULE Spec2Model ----
(***************************************************************************)
(* Model of buck2's dynamic-lambda parameter bundle                         *)
(* (app/buck2_build_api/src/dynamic/params.rs) and of the bxl Result value  *)
(* (app/buck2_bxl/src/bxl/starlark_defs/result.rs).                         *)
(*                                                                         *)
(* Spec       : one evaluator freezes a DynamicLambdaParams field by field  *)
(*              while worker threads call the accessors of the returned     *)
(*              FrozenDynamicLambdaParams.                                  *)
(* ResultSpec : a bxl.Result is constructed, optionally frozen, and its     *)
(*              methods is_ok / unwrap / unwrap_err / Error.message called. *)
(***************************************************************************)
EXTENDS Integers, Sequences, FiniteSets, TLC

VARIABLES
    unfreezable,   \* heap objects whose conversion by the Freezer fails
    params,        \* the DynamicLambdaParams handed to freeze (self)
    work,          \* the four scripted fields of self, replaced one by one by their frozen form
    pc,            \* position of the evaluator inside DynamicLambdaParams::freeze
    frozen,        \* what freeze has returned: NotReturned, Ok(bundle) or Err(e)
    ret,           \* per worker thread: the accessor it called last and what it got
    res,           \* the bxl.Result object (unfrozen or frozen representation)
    origin,        \* how res was built: variant constructor or from_result, and from what
    out,           \* last Result method called: receiver and return value
    msg            \* last Error.message read: the StarlarkError and the text returned

vars == <<unfreezable, params, work, pc, frozen, ret, res, origin, out, msg>>

paramsVars == <<params, work, pc, frozen, ret>>
resultVars == <<res, origin, out, msg>>

(***************************************************************************)
(* Bounds                                                                   *)
(***************************************************************************)
MaxObj == 2
NumReaders == 2
MaxChain == 2

Objs == 1..MaxObj
Readers == 1..NumReaders

(***************************************************************************)
(* Option and Result                                                        *)
(***************************************************************************)
None == [opt |-> "None"]
Some(v) == [opt |-> "Some", val |-> v]

OkR(v) == [tag |-> "Ok", val |-> v]
ErrR(e) == [tag |-> "Err", err |-> e]

NotReturned == [tag |-> "NotReturned"]
Idle == [acc |-> "idle"]

(***************************************************************************)
(* Scripted values.  A Value is a handle on a heap object that lives either *)
(* in the evaluator's mutable heap or in a frozen heap; a FrozenValue is a  *)
(* handle that can only name a frozen object.                               *)
(***************************************************************************)
Value(o, t, f) == [repr |-> "Value", obj |-> o, ty |-> t, frozen |-> f]
FrozenValue(o, t) == [repr |-> "FrozenValue", obj |-> o, ty |-> t]

\* The frozen twin of a complex value type; simple types are their own twin.
FrozenTy(t) ==
    CASE t = "AnalysisPlugins" -> "FrozenAnalysisPlugins"
      [] OTHER -> t

\* Values of the given (simple) types as the evaluator can hold them: created
\* by the evaluator itself or loaded from an already frozen heap.
ValuesOf(types) ==
    { Value(o, t, f) : o \in Objs, t \in types, f \in BOOLEAN }

\* Values of the given types created by the running evaluator itself.
MutableValuesOf(types) == { v \in ValuesOf(types) : ~v.frozen }

OptionOf(S) == {None} \cup { Some(v) : v \in S }

\* Freezer::freeze on one value: an already frozen value is returned as is,
\* otherwise the object is converted, which fails for the objects the
\* freezer cannot convert.
FreezeValue(v) ==
    IF v.frozen
      THEN OkR(FrozenValue(v.obj, v.ty))
      ELSE IF v.obj \in unfreezable
             THEN ErrR([kind |-> "FreezeError", obj |-> v.obj])
             ELSE OkR(FrozenValue(v.obj, FrozenTy(v.ty)))

\* Option<T>::freeze and OptionExt::try_map: None stays None, Some(v) is
\* converted and the conversion's failure is the Option's failure.
OptionFreeze(o) ==
    IF o = None
      THEN OkR(None)
      ELSE LET r == FreezeValue(o.val)
           IN  IF r.tag = "Err" THEN r ELSE OkR(Some(r.val))

\* ValueLike::to_value: a Value is returned as is, a FrozenValue becomes a
\* Value handle on the same frozen object.
ToValue(x) ==
    IF x.repr = "FrozenValue" THEN Value(x.obj, x.ty, TRUE) ELSE x

\* ValueTypedComplex::<T>::new: Some when the value is a T or T's frozen twin.
ValueTypedComplexNew(v, T) ==
    IF v.ty = T \/ v.ty = FrozenTy(T) THEN Some(v) ELSE None

(***************************************************************************)
(* DynamicLambdaStaticFields                                                *)
(***************************************************************************)
StaticFields ==
    { [owner |-> "rule:foo", dynamic |-> <<"art1">>, outputs |-> <<"art2">>,
       execution_platform |-> "unspecified"],
      [owner |-> "rule:bar", dynamic |-> <<"art1", "art3">>, outputs |-> <<"art4">>,
       execution_platform |-> "linux"] }

\* DynamicLambdaParams<'v>
DynamicLambdaParams ==
    [ attributes : OptionOf(MutableValuesOf({"struct"})),
      plugins : OptionOf(MutableValuesOf({"AnalysisPlugins"})),
      lambda : ValuesOf({"function"}),
      arg : OptionOf(MutableValuesOf({"int"})),
      static_fields : StaticFields ]

Scripted(p) ==
    [attributes |-> p.attributes, plugins |-> p.plugins, lambda |-> p.lambda, arg |-> p.arg]

\* Variant: the struct is built with the declared outputs left out.
FrozenDynamicLambdaParams_dropOutputs(w, sf) ==
    [attributes |-> w.attributes, plugins |-> w.plugins, lambda |-> w.lambda,
     arg |-> w.arg, static_fields |-> [sf EXCEPT !.outputs = <<>>]]

\* FrozenDynamicLambdaParams { attributes, plugins, lambda, arg, static_fields }
FrozenDynamicLambdaParams(w, sf) ==
    [attributes |-> w.attributes, plugins |-> w.plugins, lambda |-> w.lambda,
     arg |-> w.arg, static_fields |-> sf]

(***************************************************************************)
(* FrozenDynamicLambdaParams accessors                                      *)
(***************************************************************************)
\* cast() only changes the static type of the handle.
attributes(self) ==
    IF self.attributes = None
      THEN OkR(None)
      ELSE OkR(Some(ToValue(self.attributes.val)))

\* Variant: the stored plugins are checked against the attributes' type.
plugins_asStruct(self) ==
    IF self.plugins = None
      THEN OkR(None)
      ELSE LET c == ValueTypedComplexNew(ToValue(self.plugins.val), "struct")
           IN  IF c = None
                 THEN ErrR([kind |-> "InternalError", text |-> "plugins must be AnalysisPlugins"])
                 ELSE OkR(Some(c.val))

plugins(self) ==
    IF self.plugins = None
      THEN OkR(None)
      ELSE LET c == ValueTypedComplexNew(ToValue(self.plugins.val), "AnalysisPlugins")
           IN  IF c = None
                 THEN ErrR([kind |-> "InternalError", text |-> "plugins must be AnalysisPlugins"])
                 ELSE OkR(Some(c.val))

lambda(self) == ToValue(self.lambda)

\* Variant: arg() projects the lambda instead of the stored argument.
arg_fromLambda(self) ==
    IF self.arg = None THEN None ELSE Some(ToValue(self.lambda))

arg(self) ==
    IF self.arg = None THEN None ELSE Some(ToValue(self.arg.val))

(***************************************************************************)
(* impl Freeze for DynamicLambdaParams: the struct expression evaluates its *)
(* fields in order, each `?` returning the failure at once.                 *)
(***************************************************************************)
\* Variant: the bundle is handed out as soon as the first field is frozen.
FreezeAttributes_publishEarly ==
    /\ pc = "attributes"
    /\ LET r == OptionFreeze(work.attributes)
       IN  IF r.tag = "Err"
             THEN /\ frozen' = ErrR(r.err)
                  /\ pc' = "returned"
                  /\ UNCHANGED work
             ELSE /\ work' = [work EXCEPT !.attributes = r.val]
                  /\ pc' = "plugins"
                  /\ frozen' = OkR(FrozenDynamicLambdaParams(work', params.static_fields))
    /\ UNCHANGED <<unfreezable, params, ret, resultVars>>

\* Variant: absent attributes are treated as a failure.
FreezeAttributes_requireSome ==
    /\ pc = "attributes"
    /\ LET r == OptionFreeze(work.attributes)
       IN  IF r.tag = "Err" \/ work.attributes = None
             THEN /\ frozen' = ErrR([kind |-> "MissingAttributes"])
                  /\ pc' = "returned"
                  /\ UNCHANGED work
             ELSE /\ work' = [work EXCEPT !.attributes = r.val]
                  /\ pc' = "plugins"
                  /\ UNCHANGED frozen
    /\ UNCHANGED <<unfreezable, params, ret, resultVars>>

FreezeAttributes ==
    /\ pc = "attributes"
    /\ LET r == OptionFreeze(work.attributes)
       IN  IF r.tag = "Err"
             THEN /\ frozen' = ErrR(r.err)
                  /\ pc' = "returned"
                  /\ UNCHANGED work
             ELSE /\ work' = [work EXCEPT !.attributes = r.val]
                  /\ pc' = "plugins"
                  /\ UNCHANGED frozen
    /\ UNCHANGED <<unfreezable, params, ret, resultVars>>

\* Variant: a failed plugins freeze is swallowed and the field left absent.
FreezePlugins_swallow ==
    /\ pc = "plugins"
    /\ LET r == OptionFreeze(work.plugins)
       IN  work' = [work EXCEPT !.plugins = IF r.tag = "Err" THEN None ELSE r.val]
    /\ pc' = "lambda"
    /\ UNCHANGED <<unfreezable, params, frozen, ret, resultVars>>

FreezePlugins ==
    /\ pc = "plugins"
    /\ LET r == OptionFreeze(work.plugins)
       IN  IF r.tag = "Err"
             THEN /\ frozen' = ErrR(r.err)
                  /\ pc' = "returned"
                  /\ UNCHANGED work
             ELSE /\ work' = [work EXCEPT !.plugins = r.val]
                  /\ pc' = "lambda"
                  /\ UNCHANGED frozen
    /\ UNCHANGED <<unfreezable, params, ret, resultVars>>

FreezeLambda ==
    /\ pc = "lambda"
    /\ LET r == FreezeValue(work.lambda)
       IN  IF r.tag = "Err"
             THEN /\ frozen' = ErrR(r.err)
                  /\ pc' = "returned"
                  /\ UNCHANGED work
             ELSE /\ work' = [work EXCEPT !.lambda = r.val]
                  /\ pc' = "arg"
                  /\ UNCHANGED frozen
    /\ UNCHANGED <<unfreezable, params, ret, resultVars>>

\* The last field; on success the struct is built with self.static_fields
\* moved in, and returned.
FreezeArg ==
    /\ pc = "arg"
    /\ LET r == OptionFreeze(work.arg)
       IN  IF r.tag = "Err"
             THEN /\ frozen' = ErrR(r.err)
                  /\ UNCHANGED work
             ELSE /\ work' = [work EXCEPT !.arg = r.val]
                  /\ frozen' = OkR(FrozenDynamicLambdaParams(work', params.static_fields))
    /\ pc' = "returned"
    /\ UNCHANGED <<unfreezable, params, ret, resultVars>>

(***************************************************************************)
(* Worker threads reading the returned bundle through &self.                *)
(***************************************************************************)
CallAttributes(r) ==
    /\ frozen.tag = "Ok"
    /\ ret' = [ret EXCEPT ![r] = [acc |-> "attributes", val |-> attributes(frozen.val)]]
    /\ UNCHANGED <<unfreezable, params, work, pc, frozen, resultVars>>

CallPlugins(r) ==
    /\ frozen.tag = "Ok"
    /\ ret' = [ret EXCEPT ![r] = [acc |-> "plugins", val |-> plugins(frozen.val)]]
    /\ UNCHANGED <<unfreezable, params, work, pc, frozen, resultVars>>

CallLambda(r) ==
    /\ frozen.tag = "Ok"
    /\ ret' = [ret EXCEPT ![r] = [acc |-> "lambda", val |-> lambda(frozen.val)]]
    /\ UNCHANGED <<unfreezable, params, work, pc, frozen, resultVars>>

\* Variant: arg() takes the argument out of the bundle.
CallArg_take(r) ==
    /\ frozen.tag = "Ok"
    /\ ret' = [ret EXCEPT ![r] = [acc |-> "arg", val |-> arg(frozen.val)]]
    /\ frozen' = [frozen EXCEPT !.val.arg = None]
    /\ UNCHANGED <<unfreezable, params, work, pc, resultVars>>

CallArg(r) ==
    /\ frozen.tag = "Ok"
    /\ ret' = [ret EXCEPT ![r] = [acc |-> "arg", val |-> arg(frozen.val)]]
    /\ UNCHANGED <<unfreezable, params, work, pc, frozen, resultVars>>

(***************************************************************************)
(* Specification of the freeze protocol                                     *)
(***************************************************************************)
NoResult == [tag |-> "NoResult"]

ResultOff ==
    /\ res = NoResult
    /\ origin = Idle
    /\ out = Idle
    /\ msg = Idle

Init ==
    /\ unfreezable \in SUBSET Objs
    /\ params \in DynamicLambdaParams
    /\ work = Scripted(params)
    /\ pc = "attributes"
    /\ frozen = NotReturned
    /\ ret = [r \in Readers |-> Idle]
    /\ ResultOff

Next ==
    \/ FreezeAttributes
    \/ FreezePlugins
    \/ FreezeLambda
    \/ FreezeArg
    \/ \E r \in Readers : CallAttributes(r)
    \/ \E r \in Readers : CallPlugins(r)
    \/ \E r \in Readers : CallLambda(r)
    \/ \E r \in Readers : CallArg(r)

Spec == Init /\ [][Next]_vars

(***************************************************************************)
(* Errors.  A buck2_error::Error is a chain of messages, outermost context  *)
(* first and root cause last.  An anyhow::Error holds either such a chain   *)
(* of its own, a buck2_error::Error, or a BxlResultError.                   *)
(***************************************************************************)
Msgs == {"boom", "io"}

Chains == UNION { [1..n -> Msgs] : n \in 1..MaxChain }

Buck2Error(c) == [repr |-> "buck2_error", chain |-> c]
AnyhowError(inner) == [repr |-> "anyhow", inner |-> inner]

Buck2Errors == { Buck2Error(c) : c \in Chains }
AnyhowErrors ==
    { AnyhowError([repr |-> "context", chain |-> c]) : c \in Chains }
        \cup { AnyhowError(e) : e \in Buck2Errors }

\* buck2_error::Error::from(anyhow::Error): an anyhow error that already
\* holds a buck2_error::Error gives that error back, any other one is
\* wrapped with its chain of causes kept.
ErrorFrom(a) ==
    IF a.inner.repr = "buck2_error" THEN a.inner ELSE Buck2Error(a.inner.chain)

\* format!("{}", err): the outermost message.
ErrorDisplay(e) == <<e.chain[1]>>

\* format!("{:?}", err): the outermost message followed by the chained causes.
DebugFmt(e) ==
    IF Len(e.chain) = 1
      THEN <<e.chain[1]>>
      ELSE <<e.chain[1], "Caused by:">> \o Tail(e.chain)

\* format!("{}", val) of a scripted value: rendered from the object, the
\* same through a Value and a FrozenValue handle.
DisplayFmt(v) == <<v.ty, "#", ToString(v.obj)>>

\* enum BxlResultError and its #[error(...)] messages
UnwrapOnError(e) == [variant |-> "UnwrapOnError", f0 |-> e]
UnwrapErrOnOk(s) == [variant |-> "UnwrapErrOnOk", f0 |-> s]

BxlResultErrorDisplay(e) ==
    IF e.variant = "UnwrapOnError"
      THEN <<"called bxl.Result.unwrap() on an Err value: ">> \o ErrorDisplay(e.f0)
      ELSE <<"called bxl.Result.unwrap_err() on an Ok value: ">> \o e.f0

\* struct StarlarkError { err }
StarlarkError(e) == [repr |-> "StarlarkError", err |-> e]

\* Variant: the message is rendered with Display, which drops the causes.
message_display(this) == OkR(ErrorDisplay(this.err))

\* error_methods: the message attribute
message(this) == OkR(DebugFmt(this.err))

(***************************************************************************)
(* enum StarlarkResultGen<T>, T = Value (StarlarkResult) or FrozenValue     *)
(* (FrozenStarlarkResult)                                                   *)
(***************************************************************************)
ResultOk(T, v) == [gen |-> T, tag |-> "Ok", val |-> v]
ResultErr(T, e) == [gen |-> T, tag |-> "Err", err |-> e]

Payloads == ValuesOf({"int", "struct"})

from_result(T, r) ==
    IF r.tag = "Ok" THEN ResultOk(T, r.val) ELSE ResultErr(T, ErrorFrom(r.err))

\* Variant: the two match arms are swapped.
is_ok_swapped(self) ==
    IF self.tag = "Ok" THEN FALSE ELSE TRUE

is_ok(self) ==
    IF self.tag = "Ok" THEN TRUE ELSE FALSE

\* Variant: the error is rebuilt from its outermost message only.
unwrap_dropCause(self) ==
    IF self.tag = "Ok"
      THEN OkR(ToValue(self.val))
      ELSE ErrR(AnyhowError(UnwrapOnError(Buck2Error(<<self.err.chain[1]>>))))

unwrap(self) ==
    IF self.tag = "Ok"
      THEN OkR(ToValue(self.val))
      ELSE ErrR(AnyhowError(UnwrapOnError(self.err)))

unwrap_err(self) ==
    IF self.tag = "Ok"
      THEN LET display_str == DisplayFmt(self.val)
           IN  ErrR(AnyhowError(UnwrapErrOnOk(display_str)))
      ELSE OkR(StarlarkError(self.err))

\* result_methods: this.unpack() is Left for the unfrozen and Right for the
\* frozen representation.
is_ok_method(this) ==
    OkR(IF this.gen = "Value" THEN is_ok(this) ELSE is_ok(this))

unwrap_method(this) ==
    IF this.gen = "Value" THEN unwrap(this) ELSE unwrap(this)

unwrap_err_method(this) ==
    IF this.gen = "Value" THEN unwrap_err(this) ELSE unwrap_err(this)

\* #[derive(Freeze)]: the Ok payload is frozen, the Err field is
\* #[freeze(identity)].
ResultFreeze(self) ==
    IF self.tag = "Ok"
      THEN LET r == FreezeValue(self.val)
           IN  IF r.tag = "Err" THEN r ELSE OkR(ResultOk("FrozenValue", r.val))
      ELSE OkR(ResultErr("FrozenValue", self.err))

(***************************************************************************)
(* Operations on the Result                                                 *)
(***************************************************************************)
NewOk(v) ==
    /\ res = NoResult
    /\ res' = ResultOk("Value", v)
    /\ origin' = [how |-> "variant", tag |-> "Ok"]
    /\ UNCHANGED <<unfreezable, paramsVars, out, msg>>

NewErr(e) ==
    /\ res = NoResult
    /\ res' = ResultErr("Value", e)
    /\ origin' = [how |-> "variant", tag |-> "Err"]
    /\ UNCHANGED <<unfreezable, paramsVars, out, msg>>

FromResult(r) ==
    /\ res = NoResult
    /\ res' = from_result("Value", r)
    /\ origin' = [how |-> "from_result", tag |-> r.tag]
    /\ UNCHANGED <<unfreezable, paramsVars, out, msg>>

\* Freezing the heap that owns the Result; a failed freeze leaves no Result.
FreezeResult ==
    /\ res # NoResult
    /\ res.gen = "Value"
    /\ LET r == ResultFreeze(res)
       IN  IF r.tag = "Err"
             THEN res' = NoResult /\ origin' = Idle
             ELSE res' = r.val /\ UNCHANGED origin
    /\ UNCHANGED <<unfreezable, paramsVars, out, msg>>

CallIsOk ==
    /\ res # NoResult
    /\ out' = [method |-> "is_ok", recv |-> res, origin |-> origin, ret |-> is_ok_method(res)]
    /\ UNCHANGED <<unfreezable, paramsVars, res, origin, msg>>

CallUnwrap ==
    /\ res # NoResult
    /\ out' = [method |-> "unwrap", recv |-> res, origin |-> origin, ret |-> unwrap_method(res)]
    /\ UNCHANGED <<unfreezable, paramsVars, res, origin, msg>>

CallUnwrapErr ==
    /\ res # NoResult
    /\ out' = [method |-> "unwrap_err", recv |-> res, origin |-> origin,
               ret |-> unwrap_err_method(res)]
    /\ UNCHANGED <<unfreezable, paramsVars, res, origin, msg>>

\* Reading .message of the Error that unwrap_err returned.
ReadMessage ==
    /\ out # Idle
    /\ out.method = "unwrap_err"
    /\ out.ret.tag = "Ok"
    /\ msg' = [this |-> out.ret.val, recv |-> out.recv, text |-> message(out.ret.val)]
    /\ UNCHANGED <<unfreezable, paramsVars, res, origin, out>>

(***************************************************************************)
(* Specification of the Result value                                        *)
(***************************************************************************)
ParamsOff ==
    /\ params = None
    /\ work = None
    /\ pc = "off"
    /\ frozen = NotReturned
    /\ ret = [r \in Readers |-> Idle]

ResultInit ==
    /\ unfreezable \in SUBSET Objs
    /\ ParamsOff
    /\ ResultOff

ResultNext ==
    \/ \E v \in Payloads : NewOk(v)
    \/ \E e \in Buck2Errors : NewErr(e)
    \/ \E r \in { OkR(v) : v \in Payloads } \cup { ErrR(a) : a \in AnyhowErrors } : FromResult(r)
    \/ FreezeResult
    \/ CallIsOk
    \/ CallUnwrap
    \/ CallUnwrapErr
    \/ ReadMessage

ResultSpec == ResultInit /\ [][ResultNext]_vars

(***************************************************************************)
(* Properties of the freeze protocol (checked under Spec)                   *)
(***************************************************************************)
OptionalFields == {"attributes", "plugins", "arg"}

\* The value the freezer is asked to convert for field f, if any.
Populated(f) == IF f = "lambda" THEN TRUE ELSE params[f] # None
FieldValue(f) == IF f = "lambda" THEN params.lambda ELSE params[f].val

\* Field f holds a value whose conversion fails.
FieldFails(f) ==
    /\ Populated(f)
    /\ ~FieldValue(f).frozen
    /\ FieldValue(f).obj \in unfreezable

AnyFieldFails == \E f \in OptionalFields \cup {"lambda"} : FieldFails(f)

\* The frozen handle, and its projection into a reader's context, of the
\* object a mutable value names.
FrozenFormOf(v) == FrozenValue(v.obj, FrozenTy(v.ty))
ProjectionOf(v) == Value(v.obj, FrozenTy(v.ty), TRUE)

IsFullyFrozen(b) ==
    /\ \A f \in OptionalFields : b[f] = None \/ b[f].val.repr = "FrozenValue"
    /\ b.lambda.repr = "FrozenValue"

\* C1: freezing is all-or-nothing: when the freeze of any of the four fields
\* fails, freeze never returns a bundle, it returns an error, and no reader
\* ever observes anything of a bundle.
C1_AllOrNothing ==
    AnyFieldFails =>
        /\ frozen.tag # "Ok"
        /\ (pc = "returned" => frozen.tag = "Err")
        /\ \A r \in Readers : ret[r] = Idle

\* A later field failed after earlier ones had been converted.
C1_Witness ==
    /\ pc = "returned"
    /\ frozen.tag = "Err"
    /\ FieldFails("arg")
    /\ work.attributes # None
    /\ work.attributes.val.repr = "FrozenValue"
    /\ work.lambda.repr = "FrozenValue"

\* C2: when every populated field freezes, freeze returns a bundle in which
\* each optional field is absent exactly when it was absent before and
\* otherwise holds the frozen form of the same object, the lambda holds the
\* frozen form of the original lambda, and every accessor returns the stored
\* value projected into the caller's context (None for absent).
C2_FieldsPreserved ==
    /\ (pc = "returned" /\ ~AnyFieldFails) => frozen.tag = "Ok"
    /\ frozen.tag = "Ok" =>
        /\ \A f \in OptionalFields :
              /\ (frozen.val[f] = None) <=> (params[f] = None)
              /\ params[f] # None => frozen.val[f] = Some(FrozenFormOf(params[f].val))
        /\ frozen.val.lambda = FrozenFormOf(params.lambda)
        /\ \A r \in Readers :
              /\ ret[r].acc = "attributes" =>
                    ret[r].val = OkR(IF params.attributes = None THEN None
                                     ELSE Some(ProjectionOf(params.attributes.val)))
              /\ ret[r].acc = "plugins" =>
                    ret[r].val = OkR(IF params.plugins = None THEN None
                                     ELSE Some(ProjectionOf(params.plugins.val)))
              /\ ret[r].acc = "lambda" => ret[r].val = ProjectionOf(params.lambda)
              /\ ret[r].acc = "arg" =>
                    ret[r].val = (IF params.arg = None THEN None
                                  ELSE Some(ProjectionOf(params.arg.val)))

\* A bundle with a populated and an absent optional field, both read back.
C2_Witness ==
    /\ frozen.tag = "Ok"
    /\ params.attributes = None
    /\ params.plugins # None
    /\ params.arg # None
    /\ ~params.arg.val.frozen
    /\ params.arg.val.obj # params.lambda.obj
    /\ ret[1].acc = "arg"
    /\ ret[2].acc = "attributes"

\* C3: after a successful freeze the bundle's static_fields are the mutable
\* bundle's static_fields.
C3_StaticFieldsUnchanged ==
    frozen.tag = "Ok" => frozen.val.static_fields = params.static_fields

C3_Witness ==
    /\ frozen.tag = "Ok"
    /\ frozen.val.static_fields.owner = "rule:bar"
    /\ Len(frozen.val.static_fields.outputs) = 1
    /\ params.plugins # None
    /\ ~params.lambda.frozen

\* C4: a bundle is visible only once freeze has returned, and then all its
\* scripted fields are frozen; every value a reader has obtained was read
\* from such a bundle and names a frozen object.
C4_NoPartialBundleVisible ==
    /\ pc # "returned" => frozen = NotReturned
    /\ frozen.tag = "Ok" => IsFullyFrozen(frozen.val)
    /\ \A r \in Readers :
          ret[r] # Idle => /\ pc = "returned"
                           /\ frozen.tag = "Ok"
                           /\ IsFullyFrozen(frozen.val)

\* Readers have read a bundle all of whose fields had to be converted.
C4_Witness ==
    /\ \A f \in OptionalFields : params[f] # None /\ ~params[f].val.frozen
    /\ ~params.lambda.frozen
    /\ ret[1].acc = "plugins"
    /\ ret[2].acc = "arg"

\* C5: once returned, the bundle never changes, whichever accessors the
\* readers call, and a call of an accessor returns what every earlier call
\* of that accessor, by any reader, returned.
C5_FrozenNeverMutated ==
    [][ /\ frozen.tag = "Ok" => frozen' = frozen
        /\ \A r, q \in Readers :
              (ret'[r] # Idle /\ ret[q] # Idle /\ ret'[r].acc = ret[q].acc)
                  => ret'[r].val = ret[q].val ]_vars

\* Two readers have called the same accessor on a populated field.
C5_Witness ==
    /\ frozen.tag = "Ok"
    /\ ret[1].acc = "arg"
    /\ ret[2].acc = "arg"
    /\ ret[1].val # None

NoOptionals == \A f \in OptionalFields : params[f] = None

\* C6 as stated: a bundle without optional fields always freezes
\* successfully and the accessors of its optional fields return absent.
C6_AsStated ==
    (NoOptionals /\ pc = "returned") =>
        /\ frozen.tag = "Ok"
        /\ \A r \in Readers :
              /\ ret[r].acc \in {"attributes", "plugins"} => ret[r].val = OkR(None)
              /\ ret[r].acc = "arg" => ret[r].val = None

\* C6: a bundle without optional fields whose lambda freezes is frozen
\* successfully; attributes(), plugins() and arg() of the result return
\* absent and lambda() returns the frozen lambda.
C6_NoOptionalsFreeze ==
    (NoOptionals /\ pc = "returned" /\ ~FieldFails("lambda")) =>
        /\ frozen.tag = "Ok"
        /\ \A r \in Readers :
              /\ ret[r].acc \in {"attributes", "plugins"} => ret[r].val = OkR(None)
              /\ ret[r].acc = "arg" => ret[r].val = None
              /\ ret[r].acc = "lambda" => ret[r].val = ProjectionOf(params.lambda)

C6_Witness ==
    /\ NoOptionals
    /\ frozen.tag = "Ok"
    /\ ~params.lambda.frozen
    /\ ret[1].acc = "attributes"
    /\ ret[2].acc = "arg"

\* C10: on a bundle returned by freeze, plugins() never reports the
\* internal-consistency error: it returns Ok(None) when plugins was absent
\* and Ok(Some(..)) otherwise; attributes() never returns an error.
C10_PluginsErrorUnreachable ==
    \A r \in Readers :
        /\ ret[r].acc = "plugins" =>
              /\ ret[r].val.tag = "Ok"
              /\ (ret[r].val.val = None) <=> (params.plugins = None)
        /\ ret[r].acc = "attributes" => ret[r].val.tag = "Ok"

\* plugins() read back for plugins that were mutable and for an absent
\* attributes record.
C10_Witness ==
    /\ params.plugins # None
    /\ params.plugins.val.ty = "AnalysisPlugins"
    /\ ret[1].acc = "plugins"
    /\ ret[1].val.tag = "Ok"
    /\ ret[2].acc = "attributes"

(***************************************************************************)
(* Properties of the Result value (checked under ResultSpec)                *)
(***************************************************************************)
\* sub occurs in text as a contiguous run.
Contains(text, sub) ==
    \E i \in 0..(Len(text) - Len(sub)) : SubSeq(text, i + 1, i + Len(sub)) = sub

\* C7: unwrap() of Ok(v) returns v, as a handle on the same object of the
\* same type (v itself for the unfrozen representation); unwrap() of Err(e)
\* returns no value but fails with UnwrapOnError carrying e, in both
\* representations.
C7_Unwrap ==
    (out # Idle /\ out.method = "unwrap") =>
        /\ out.recv.tag = "Ok" =>
              /\ out.ret.tag = "Ok"
              /\ out.ret.val.repr = "Value"
              /\ out.ret.val.obj = out.recv.val.obj
              /\ out.ret.val.ty = out.recv.val.ty
              /\ out.recv.gen = "Value" => out.ret.val = out.recv.val
              /\ out.recv.gen = "FrozenValue" => out.ret.val.frozen
        /\ out.recv.tag = "Err" =>
              /\ out.ret.tag = "Err"
              /\ out.ret.err.inner.variant = "UnwrapOnError"
              /\ out.ret.err.inner.f0 = out.recv.err

\* unwrap() was called on a frozen Err whose error has a chained cause.
C7_Witness ==
    /\ out # Idle
    /\ out.method = "unwrap"
    /\ out.recv.gen = "FrozenValue"
    /\ out.recv.tag = "Err"
    /\ Len(out.recv.err.chain) = 2
    /\ out.ret.tag = "Err"

\* C8: unwrap_err() of Err(e) returns an Error wrapping e, and that Error's
\* message is e's debug text, in which every chained cause appears;
\* unwrap_err() of Ok(v) returns no value but fails with UnwrapErrOnOk, whose
\* message contains v's display text.
C8_UnwrapErr ==
    /\ (out # Idle /\ out.method = "unwrap_err") =>
          /\ out.recv.tag = "Err" => out.ret = OkR(StarlarkError(out.recv.err))
          /\ out.recv.tag = "Ok" =>
                /\ out.ret.tag = "Err"
                /\ out.ret.err.inner.variant = "UnwrapErrOnOk"
                /\ Contains(BxlResultErrorDisplay(out.ret.err.inner),
                            <<out.recv.val.ty, "#", ToString(out.recv.val.obj)>>)
    /\ msg # Idle =>
          LET c == msg.recv.err.chain
          IN  /\ msg.text.tag = "Ok"
              /\ msg.text.val = DebugFmt(msg.recv.err)
              /\ msg.text.val[1] = c[1]
              /\ \A i \in 1..Len(c) : \E j \in 1..Len(msg.text.val) : msg.text.val[j] = c[i]
              /\ Len(msg.text.val) >= Len(c)

\* The message of an error with a chained cause has been read.
C8_Witness ==
    /\ msg # Idle
    /\ Len(msg.recv.err.chain) = 2
    /\ msg.recv.err.chain[1] # msg.recv.err.chain[2]
    /\ out.method = "unwrap_err"
    /\ out.ret.tag = "Ok"

\* C9: is_ok() never fails and returns true exactly for the Ok variant, for
\* a Result built from a variant or lifted by from_result (where it is true
\* exactly when the lifted outcome was Ok), in both representations.
C9_IsOk ==
    (out # Idle /\ out.method = "is_ok") =>
        /\ out.ret.tag = "Ok"
        /\ out.ret.val \in BOOLEAN
        /\ out.ret.val <=> (out.recv.tag = "Ok")
        /\ out.ret.val <=> (out.origin.tag = "Ok")

\* is_ok() was called on a frozen Result lifted from a failed computation.
C9_Witness ==
    /\ out # Idle
    /\ out.method = "is_ok"
    /\ out.recv.gen = "FrozenValue"
    /\ out.origin.how = "from_result"
    /\ out.recv.tag = "Err"
    /\ out.ret = OkR(FALSE)

====
